---- MODULE Spec2Model ----
(***************************************************************************)
(* Model of the token-based authentication layer of Smart-Work-Assistant:  *)
(*   apps/server/controllers/authController.js  signUp, signIn, signOut    *)
(*   apps/server/middleware/authMiddleware.js   authenticate               *)
(*   apps/server/utils/jwt.js                   generateToken, verifyToken,*)
(*                                              setTokenCookie,            *)
(*                                              clearTokenCookie           *)
(*   apps/server/routes/authRoutes.js           validators, router         *)
(*   prisma migration                           users, users_email_key     *)
(* A handler is cut into steps at its accesses to table "users": signUp    *)
(* into its lookup and its create, between which other requests run;       *)
(* signIn and authenticate + signOut read the table once and are one step. *)
(* The awaits on bcrypt touch nothing shared and stay inside their step.   *)
(***************************************************************************)
EXTENDS Integers, Sequences, FiniteSets, TLC

VARIABLES
    users,          \* rows of table "users"
    nextId,         \* ids handed out so far + 1 (ids are never reused)
    clock,          \* Date.now(), in milliseconds
    ticks,          \* number of clock advances so far
    JWT_EXPIRES_IN, \* process.env.JWT_EXPIRES_IN || '7d', in seconds
    NODE_ENV,       \* process.env.NODE_ENV
    reqs,           \* the HTTP requests received so far, with their progress
    jar,            \* the browser: its cookie "token", and whether its last
                    \* successful request was a sign-out
    faults          \* unexpected store / hashing failures so far

vars == <<users, nextId, clock, ticks, JWT_EXPIRES_IN, NODE_ENV, reqs, jar, faults>>

----------------------------------------------------------------------------
(* Bounds                                                                  *)

MaxReqs   == 2
MaxTicks  == 1
MaxFaults == 1

----------------------------------------------------------------------------
(* Program constants                                                       *)

MsPerSecond     == 1000
SevenDays       == 604800
CookieMaxAge    == 7 * 24 * 60 * 60 * 1000
MinPasswordLen  == 6
MinNameLen      == 2
MaxNameLen      == 50
JWT_SECRET      == "your-super-secret-key-change-this-in-production"

\* half a second: the clock is finer than the token's whole-second timestamps
TickMs          == MsPerSecond \div 2
\* lifetimes the environment may configure: an override of 1s, the default 7d
Lifetimes       == {1, SevenDays}
\* values of NODE_ENV the server is run under
NodeEnvs        == {"production"}

----------------------------------------------------------------------------
(* JavaScript values                                                       *)

Null      == [null |-> TRUE]          \* null / undefined
\* !v for a body field; a field absent from the JSON body reads as ""
Falsy(v)  == v = ""

\* cookie values that may arrive in req.cookies.token
NoCookie    == [kind |-> "undefined"]
EmptyCookie == [kind |-> "empty"]
Garbage     == [kind |-> "garbage"]
FalsyCookie(c) == c \in {NoCookie, EmptyCookie}

----------------------------------------------------------------------------
(* bcryptjs                                                                *)

\* bcrypt.hash(password, saltRounds): one-way, the hash is not the password
Hash(password) == [bcrypt |-> password]
\* bcrypt.compare(candidate, hash)
Compare(candidate, hash) == hash = Hash(candidate)

----------------------------------------------------------------------------
(* express-validator chains of authRoutes.js                               *)

\* .trim(): the inputs used here carry a single leading or trailing blank at most
Trim(s) ==
    CASE s = " "        -> ""
      [] s = "Ann "     -> "Ann"
      [] s = " a@x.com" -> "a@x.com"
      [] OTHER          -> s

\* .isEmail()
IsEmail(s) == s \in {"a@x.com", "A@x.com", "b@x.com"}

\* .normalizeEmail(): lower-cases the address
NormalizeEmail(s) == IF s = "A@x.com" THEN "a@x.com" ELSE s

\* ValidationErrors with isLength({ min: 7 }) for the password
ValidationErrorsMinSeven(kind, body) ==
    LET name == Trim(body.name)
        email == Trim(body.email)
        nameErrs ==
            IF kind # "signup" THEN <<>>
            ELSE IF name = ""
                 THEN <<[field |-> "name", message |-> "Name is required"],
                        [field |-> "name", message |-> "Name must be between 2 and 50 characters"]>>
            ELSE IF Len(name) < MinNameLen \/ Len(name) > MaxNameLen
                 THEN <<[field |-> "name", message |-> "Name must be between 2 and 50 characters"]>>
            ELSE <<>>
        emailErrs ==
            IF email = ""
            THEN <<[field |-> "email", message |-> "Email is required"],
                   [field |-> "email", message |-> "Please provide a valid email address"]>>
            ELSE IF ~IsEmail(email)
                 THEN <<[field |-> "email", message |-> "Please provide a valid email address"]>>
            ELSE <<>>
        pwErrs ==
            IF body.password = ""
            THEN IF kind = "signup"
                 THEN <<[field |-> "password", message |-> "Password is required"],
                        [field |-> "password", message |-> "Password must be at least 6 characters long"]>>
                 ELSE <<[field |-> "password", message |-> "Password is required"]>>
            ELSE IF kind = "signup" /\ Len(body.password) <= MinPasswordLen
                 THEN <<[field |-> "password", message |-> "Password must be at least 6 characters long"]>>
            ELSE <<>>
    IN  nameErrs \o emailErrs \o pwErrs

\* validateSignUp / validateSignIn: the errors validationResult(req) holds
ValidationErrors(kind, body) ==
    LET name == Trim(body.name)
        email == Trim(body.email)
        nameErrs ==
            IF kind # "signup" THEN <<>>
            ELSE IF name = ""
                 THEN <<[field |-> "name", message |-> "Name is required"],
                        [field |-> "name", message |-> "Name must be between 2 and 50 characters"]>>
            ELSE IF Len(name) < MinNameLen \/ Len(name) > MaxNameLen
                 THEN <<[field |-> "name", message |-> "Name must be between 2 and 50 characters"]>>
            ELSE <<>>
        emailErrs ==
            IF email = ""
            THEN <<[field |-> "email", message |-> "Email is required"],
                   [field |-> "email", message |-> "Please provide a valid email address"]>>
            ELSE IF ~IsEmail(email)
                 THEN <<[field |-> "email", message |-> "Please provide a valid email address"]>>
            ELSE <<>>
        pwErrs ==
            IF body.password = ""
            THEN IF kind = "signup"
                 THEN <<[field |-> "password", message |-> "Password is required"],
                        [field |-> "password", message |-> "Password must be at least 6 characters long"]>>
                 ELSE <<[field |-> "password", message |-> "Password is required"]>>
            ELSE IF kind = "signup" /\ Len(body.password) < MinPasswordLen
                 THEN <<[field |-> "password", message |-> "Password must be at least 6 characters long"]>>
            ELSE <<>>
    IN  nameErrs \o emailErrs \o pwErrs

\* the sanitizers write the cleaned values back into req.body
Sanitize(kind, body) ==
    [name     |-> IF kind = "signup" THEN Trim(body.name) ELSE body.name,
     email    |-> IF IsEmail(Trim(body.email)) THEN NormalizeEmail(Trim(body.email))
                  ELSE Trim(body.email),
     password |-> body.password]

----------------------------------------------------------------------------
(* utils/jwt.js over jsonwebtoken                                          *)

\* HMAC of the payload under the secret
Signature(userId, iat, exp, secret) == <<userId, iat, exp, secret>>

\* generateToken that signs a payload without the user's id: { userId: undefined }
generateTokenNoUser(userId, now, expiresIn) ==
    LET iat == now \div MsPerSecond
        exp == iat + expiresIn
    IN  [kind |-> "jwt", userId |-> 0, iat |-> iat, exp |-> exp,
         sig |-> Signature(0, iat, exp, JWT_SECRET)]

\* jwt.sign({ userId }, JWT_SECRET, { expiresIn }): iat is the clock in whole
\* seconds, exp = iat + expiresIn
generateToken(userId, now, expiresIn) ==
    LET iat == now \div MsPerSecond
        exp == iat + expiresIn
    IN  [kind |-> "jwt", userId |-> userId, iat |-> iat, exp |-> exp,
         sig |-> Signature(userId, iat, exp, JWT_SECRET)]

\* verifyToken that still accepts the token in the second it expires
verifyTokenLate(token, now) ==
    IF token.kind # "jwt" THEN Null
    ELSE IF token.sig # Signature(token.userId, token.iat, token.exp, JWT_SECRET) THEN Null
    ELSE IF now \div MsPerSecond > token.exp THEN Null
    ELSE [userId |-> token.userId, iat |-> token.iat, exp |-> token.exp]

\* an exception raised by a call, as the value the call ends in
Throw(name) == [threw |-> name]
Thrown(v) == "threw" \in DOMAIN v

\* jwt.verify(token, secret): the payload, or an exception for a malformed
\* token, a bad signature or an expired token
jwtVerify(token, secret, now) ==
    IF token.kind # "jwt" THEN Throw("JsonWebTokenError")
    ELSE IF token.sig # Signature(token.userId, token.iat, token.exp, secret)
    THEN Throw("JsonWebTokenError")
    ELSE IF now \div MsPerSecond >= token.exp THEN Throw("TokenExpiredError")
    ELSE [userId |-> token.userId, iat |-> token.iat, exp |-> token.exp]

\* verifyToken without its try/catch: the exception of jwt.verify escapes
verifyTokenUncaught(token, now) == jwtVerify(token, JWT_SECRET, now)

\* try { return jwt.verify(token, JWT_SECRET) } catch (error) { return null }
verifyToken(token, now) ==
    LET decoded == jwtVerify(token, JWT_SECRET, now)
    IN  IF Thrown(decoded) THEN Null ELSE decoded

\* res.cookie('token', token, {...})
setTokenCookie(token, nodeEnv) ==
    [name |-> "token", value |-> token, httpOnly |-> TRUE,
     secure |-> (nodeEnv = "production"), sameSite |-> "strict",
     maxAge |-> CookieMaxAge, path |-> "/"]

\* res.cookie('token', '', {..., expires: new Date(0)})
clearTokenCookie(nodeEnv) ==
    [name |-> "token", value |-> EmptyCookie, httpOnly |-> TRUE,
     secure |-> (nodeEnv = "production"), sameSite |-> "strict",
     expires |-> 0, path |-> "/"]

\* a token whose payload was changed after signing
Tamper(token, uid) == [token EXCEPT !.userId = uid]

----------------------------------------------------------------------------
(* Prisma client over table "users"                                        *)

\* select: { id, name, email, createdAt }
Projection(u) == [id |-> u.id, name |-> u.name, email |-> u.email, createdAt |-> u.createdAt]

\* prisma.user.findUnique({ where: { email } })
FindByEmail(email) ==
    IF \E u \in users : u.email = email
    THEN CHOOSE u \in users : u.email = email
    ELSE Null

\* prisma.user.findUnique({ where: { id }, select })
FindById(id) ==
    IF \E u \in users : u.id = id
    THEN Projection(CHOOSE u \in users : u.id = id)
    ELSE Null

\* a table without the unique index on email: no insert is ever turned down
EmailTakenNoIndex(email) == FALSE

\* unique index users_email_key: an insert of a second row with the email fails
EmailTaken(email) == \E u \in users : u.email = email

----------------------------------------------------------------------------
(* Requests and responses                                                  *)

NoRes == [status |-> 0, body |-> Null, cookie |-> Null, sent |-> 0, issuedAt |-> 0]

\* viaJar: sent by the browser; afterSignOut: sent by it right after a sign-out
NewReq(kind, body, cookies, viaJar, afterSignOut) ==
    [kind |-> kind, pc |-> "start", body |-> body, cookies |-> cookies,
     viaJar |-> viaJar, afterSignOut |-> afterSignOut,
     user |-> Null, hashedPassword |-> Null, isPasswordValid |-> FALSE,
     decoded |-> Null, reqUser |-> Null, nextCalled |-> FALSE,
     faulted |-> FALSE, work |-> <<>>, res |-> NoRes]

\* the handler awaited this call of the store or of bcrypt, and it returned
Awaited(q, call) == [q EXCEPT !.work = Append(@, call)]

\* res.cookie(...) (when cookie # Null) followed by res.status(status).json(body);
\* issuedAt keeps the clock reading at which a token in the cookie was signed
Respond(q, status, body, cookie) ==
    [q EXCEPT !.pc = "done",
              !.res = [status |-> status, body |-> body, cookie |-> cookie,
                       sent |-> q.res.sent + 1,
                       issuedAt |-> IF cookie # Null /\ cookie.value.kind = "jwt"
                                    THEN clock ELSE 0]]

Msg(success, message) == [success |-> success, message |-> message]
MsgUser(message, user) == [success |-> TRUE, message |-> message, user |-> user]
MsgErrors(message, errors) == [success |-> FALSE, message |-> message, errors |-> errors]

\* a catch that passes the error's message on to the client
InternalErrorWithDetail(q) ==
    Respond([q EXCEPT !.faulted = TRUE], 500,
            [success |-> FALSE, message |-> "Internal server error",
             error |-> "PrismaClientInitializationError"], Null)

\* catch (error) { res.status(500).json(...) } of signUp, signIn, signOut
InternalError(q) ==
    Respond([q EXCEPT !.faulted = TRUE], 500, Msg(FALSE, "Internal server error"), Null)

\* catch (error) of authenticate
AuthInternalError(q) ==
    Respond([q EXCEPT !.faulted = TRUE], 500,
            Msg(FALSE, "Internal server error during authentication"), Null)

\* the request bodies clients send
SignUpBodies ==
    { [name |-> "Ann",  email |-> "a@x.com",  password |-> "secret1"],
      [name |-> "Bob",  email |-> "A@x.com",  password |-> "abcdef"],
      [name |-> "Ann ", email |-> "b@x.com",  password |-> "secret1"],
      [name |-> "",     email |-> "a@x.com",  password |-> "secret1"],
      [name |-> "A",    email |-> "a@x.com",  password |-> "secret1"],
      [name |-> "Ann",  email |-> "",         password |-> "secret1"],
      [name |-> "Ann",  email |-> "ann",      password |-> "secret1"],
      [name |-> "Ann",  email |-> "a@x.com",  password |-> ""],
      [name |-> "Ann",  email |-> "a@x.com",  password |-> "abcde"] }

SignInBodies ==
    { [name |-> "", email |-> "a@x.com",  password |-> "secret1"],
      [name |-> "", email |-> "A@x.com",  password |-> "abcdef"],
      [name |-> "", email |-> "b@x.com",  password |-> "secret1"],
      [name |-> "", email |-> "",         password |-> "secret1"],
      [name |-> "", email |-> "a@x.com",  password |-> ""] }

\* tokens that were handed to some client: in a response, in the browser's
\* jar, or seen in a request (a client keeps a token it once held)
IssuedTokens ==
    { reqs[i].res.cookie.value : i \in { j \in 1..Len(reqs) :
          reqs[j].res.cookie # Null /\ reqs[j].res.cookie.value.kind = "jwt" } }
      \cup (IF jar.value.kind = "jwt" THEN {jar.value} ELSE {})
      \cup { reqs[i].cookies : i \in { j \in 1..Len(reqs) :
                 reqs[j].cookies.kind = "jwt"
                 /\ reqs[j].cookies.sig = Signature(reqs[j].cookies.userId, reqs[j].cookies.iat,
                                                    reqs[j].cookies.exp, JWT_SECRET) } }

\* cookies a client other than the browser may present
CraftedCookies ==
    {NoCookie, EmptyCookie, Garbage} \cup IssuedTokens
        \cup UNION { { Tamper(t, uid) : uid \in (1..nextId) \ {t.userId} } : t \in IssuedTokens }

\* The browser on receiving the response of q: it remembers a sign-out that
\* succeeded, and applies the Set-Cookie instruction. A cookie whose expiry is
\* past is dropped, or, by a client that ignores expiry, kept with its new value.
BrowserAfter(j, q) ==
    LET c == q.res.cookie
        signedOut == IF q.kind = "signout" /\ q.res.status = 200 THEN TRUE
                     ELSE IF c # Null THEN FALSE
                     ELSE j.signedOut
    IN  IF c = Null THEN { [j EXCEPT !.signedOut = signedOut] }
        ELSE IF "expires" \in DOMAIN c /\ c.expires <= clock
        THEN { [value |-> NoCookie, signedOut |-> signedOut],
               [value |-> c.value, signedOut |-> signedOut] }
        ELSE { [value |-> c.value, signedOut |-> signedOut] }

\* an unexpected failure (store outage, hashing error) may strike an awaited call
MayFail == IF faults < MaxFaults THEN {FALSE, TRUE} ELSE {FALSE}

----------------------------------------------------------------------------
(* Initial state                                                           *)

\* the user an earlier sign-up { name: "Ann", email: "a@x.com", password: "secret1" }
\* left in the store
Ann(now) == [id |-> 1, name |-> "Ann", email |-> "a@x.com",
             password |-> Hash("secret1"), createdAt |-> now]

\* The clock stands in the middle of a second. The server has just started with
\* an empty table; or it is observed right after Ann's sign-up, with her row in the
\* table and her token in the browser; or after that row was removed again by
\* another writer of the table ("maybe they were deleted").
Init ==
    /\ clock = TickMs
    /\ ticks = 0
    /\ JWT_EXPIRES_IN \in Lifetimes
    /\ NODE_ENV \in NodeEnvs
    /\ reqs = <<>>
    /\ faults = 0
    /\ \/ /\ users = {}
          /\ nextId = 1
          /\ jar = [value |-> NoCookie, signedOut |-> FALSE]
       \/ /\ users \in {{Ann(clock)}, {}}
          /\ nextId = 2
          /\ jar = [value |-> generateToken(1, clock, JWT_EXPIRES_IN), signedOut |-> FALSE]

----------------------------------------------------------------------------
(* POST /api/auth/signup: validateSignUp, checkValidation, signUp          *)
(* signUp touches the store twice, in findUnique and in create; other      *)
(* requests run between the two.                                           *)

\* SignUpFound that goes on to create whatever the lookup returned
SignUpFoundIgnored(q) ==
    [q EXCEPT !.user = FindByEmail(q.body.email), !.pc = "su_create"]

\* const existingUser = await prisma.user.findUnique({ where: { email } })
SignUpFound(q) ==
    LET existingUser == FindByEmail(q.body.email)
    IN  IF existingUser # Null
        THEN Respond([q EXCEPT !.user = existingUser], 400,
                     Msg(FALSE, "Email already registered"), Null)
        ELSE [q EXCEPT !.pc = "su_create"]

\* the chain from the validators to signUp's findUnique
SignUpEnter(q, fail) ==
    LET errs == ValidationErrors("signup", q.body)
        b    == Sanitize("signup", q.body)
        r    == [q EXCEPT !.body = b]
    IN  IF errs # <<>>
        THEN Respond(r, 400, MsgErrors("Validation failed", errs), Null)
        ELSE IF Falsy(b.name) \/ Falsy(b.email) \/ Falsy(b.password)
        THEN Respond(r, 400, Msg(FALSE, "Please provide name, email, and password"), Null)
        ELSE IF Len(b.password) < MinPasswordLen
        THEN Respond(r, 400, Msg(FALSE, "Password must be at least 6 characters long"), Null)
        ELSE IF fail THEN InternalError(r)
        ELSE SignUpFound(Awaited(r, "findUnique"))

StartSignUp ==
    /\ Len(reqs) < MaxReqs
    /\ \E body \in SignUpBodies, fail \in MayFail :
         LET q == SignUpEnter(NewReq("signup", body, jar.value, TRUE, jar.signedOut), fail)
         IN  /\ reqs' = Append(reqs, q)
             /\ faults' = IF q.faulted THEN faults + 1 ELSE faults
    /\ UNCHANGED <<users, nextId, clock, ticks, JWT_EXPIRES_IN, NODE_ENV, jar>>

\* the row prisma.user.create inserts
NewRow(q, hashedPassword) ==
    [id |-> nextId, name |-> q.body.name, email |-> q.body.email,
     password |-> hashedPassword, createdAt |-> clock]

\* signUp after a create that returned newUser: token, cookie, 201
SignUpCreated(q, newUser) ==
    LET token == generateToken(newUser.id, clock, JWT_EXPIRES_IN)
    IN  Respond(q, 201, MsgUser("User created successfully", newUser),
                setTokenCookie(token, NODE_ENV))

\* where the second half of signUp may fail unexpectedly: in bcrypt.hash or
\* prisma.user.create, or, the row being inserted, in generateToken (jwt.sign
\* throws on an expiresIn it cannot read) or setTokenCookie
SignUpFailPoints ==
    IF faults < MaxFaults THEN {"none", "create", "token"} ELSE {"none"}

\* const hashedPassword = await bcrypt.hash(password, saltRounds);
\* const newUser = await prisma.user.create({ data, select }) and the rest of
\* signUp; a violation of users_email_key makes create throw; the insert is
\* committed when create returns, and the catch does not undo it
SignUpCreate(i) ==
    /\ i \in 1..Len(reqs)
    /\ reqs[i].pc = "su_create"
    /\ \E fail \in SignUpFailPoints :
         LET hashedPassword == Hash(reqs[i].body.password)
             q   == [reqs[i] EXCEPT !.hashedPassword = hashedPassword]
             row == NewRow(q, hashedPassword)
         IN  IF fail = "create"
             THEN /\ reqs' = [reqs EXCEPT ![i] = InternalError(q)]
                  /\ faults' = faults + 1
                  /\ UNCHANGED <<users, nextId, jar>>
             ELSE IF EmailTaken(q.body.email)
             THEN /\ reqs' = [reqs EXCEPT ![i] =
                                 Respond(Awaited(q, "bcrypt.hash"), 500,
                                         Msg(FALSE, "Internal server error"), Null)]
                  /\ UNCHANGED <<users, nextId, jar, faults>>
             ELSE IF fail = "token"
             THEN /\ users' = users \cup {row}
                  /\ nextId' = nextId + 1
                  /\ reqs' = [reqs EXCEPT ![i] =
                                 InternalError(Awaited(Awaited(q, "bcrypt.hash"), "create"))]
                  /\ faults' = faults + 1
                  /\ UNCHANGED jar
             ELSE /\ users' = users \cup {row}
                  /\ nextId' = nextId + 1
                  /\ reqs' = [reqs EXCEPT ![i] =
                                 SignUpCreated(Awaited(Awaited(q, "bcrypt.hash"), "create"),
                                               Projection(row))]
                  /\ jar' \in BrowserAfter(jar, reqs'[i])
                  /\ UNCHANGED faults
    /\ UNCHANGED <<clock, ticks, JWT_EXPIRES_IN, NODE_ENV>>

----------------------------------------------------------------------------
(* POST /api/auth/signin: validateSignIn, checkValidation, signIn          *)
(* signIn reads the store once and writes nothing: one step.               *)

\* SignInCompared that sets the token cookie before it looks at the result of
\* bcrypt.compare
SignInComparedCookieFirst(q) ==
    LET isPasswordValid == Compare(q.body.password, q.user.password)
        r == [q EXCEPT !.isPasswordValid = isPasswordValid]
        token == generateToken(q.user.id, clock, JWT_EXPIRES_IN)
    IN  IF ~isPasswordValid
        THEN Respond(r, 401, Msg(FALSE, "Invalid email or password"),
                     setTokenCookie(token, NODE_ENV))
        ELSE Respond(r, 200, MsgUser("Signed in successfully",
                             [id |-> q.user.id, name |-> q.user.name,
                              email |-> q.user.email, createdAt |-> q.user.createdAt]),
                     setTokenCookie(token, NODE_ENV))

\* SignInCompared answering with the row as it was read: user: user
SignInComparedWholeRow(q) ==
    LET isPasswordValid == Compare(q.body.password, q.user.password)
        r == [q EXCEPT !.isPasswordValid = isPasswordValid]
        token == generateToken(q.user.id, clock, JWT_EXPIRES_IN)
    IN  IF ~isPasswordValid
        THEN Respond(r, 401, Msg(FALSE, "Invalid email or password"), Null)
        ELSE Respond(r, 200, MsgUser("Signed in successfully", q.user),
                     setTokenCookie(token, NODE_ENV))

\* const isPasswordValid = await bcrypt.compare(password, user.password) and
\* the rest of signIn
SignInCompared(q) ==
    LET isPasswordValid == Compare(q.body.password, q.user.password)
        r == [q EXCEPT !.isPasswordValid = isPasswordValid]
        token == generateToken(q.user.id, clock, JWT_EXPIRES_IN)
    IN  IF ~isPasswordValid
        THEN Respond(r, 401, Msg(FALSE, "Invalid email or password"), Null)
        ELSE Respond(r, 200,
                     MsgUser("Signed in successfully",
                             [id |-> q.user.id, name |-> q.user.name,
                              email |-> q.user.email, createdAt |-> q.user.createdAt]),
                     setTokenCookie(token, NODE_ENV))

\* SignInFound with a message of its own for an unknown email
SignInFoundRevealing(q) ==
    LET user == FindByEmail(q.body.email)
    IN  IF user = Null
        THEN Respond(q, 401, Msg(FALSE, "No account with this email"), Null)
        ELSE SignInCompared(Awaited([q EXCEPT !.user = user], "bcrypt.compare"))

\* const user = await prisma.user.findUnique({ where: { email } })
SignInFound(q) ==
    LET user == FindByEmail(q.body.email)
    IN  IF user = Null
        THEN Respond(q, 401, Msg(FALSE, "Invalid email or password"), Null)
        ELSE SignInCompared(Awaited([q EXCEPT !.user = user], "bcrypt.compare"))

\* the chain from the validators through signIn
signIn(q, fail) ==
    LET errs == ValidationErrors("signin", q.body)
        b    == Sanitize("signin", q.body)
        r    == [q EXCEPT !.body = b]
    IN  IF errs # <<>>
        THEN Respond(r, 400, MsgErrors("Validation failed", errs), Null)
        ELSE IF Falsy(b.email) \/ Falsy(b.password)
        THEN Respond(r, 400, Msg(FALSE, "Please provide email and password"), Null)
        ELSE IF fail THEN InternalError(r)
        ELSE SignInFound(Awaited(r, "findUnique"))

\* a sign-in that writes to the row it signed in: prisma.user.update after the
\* password matched
SignInUpdating ==
    /\ Len(reqs) < MaxReqs
    /\ \E body \in SignInBodies, fail \in MayFail :
         LET q == signIn(NewReq("signin", body, jar.value, TRUE, jar.signedOut), fail)
         IN  /\ reqs' = Append(reqs, q)
             /\ faults' = IF q.faulted THEN faults + 1 ELSE faults
             /\ jar' \in BrowserAfter(jar, q)
             /\ users' = { IF q.res.status = 200 /\ u.email = q.body.email
                           THEN [u EXCEPT !.name = "signed in"] ELSE u : u \in users }
    /\ UNCHANGED <<nextId, clock, ticks, JWT_EXPIRES_IN, NODE_ENV>>

SignIn ==
    /\ Len(reqs) < MaxReqs
    /\ \E body \in SignInBodies, fail \in MayFail :
         LET q == signIn(NewReq("signin", body, jar.value, TRUE, jar.signedOut), fail)
         IN  /\ reqs' = Append(reqs, q)
             /\ faults' = IF q.faulted THEN faults + 1 ELSE faults
             /\ jar' \in BrowserAfter(jar, q)
    /\ UNCHANGED <<users, nextId, clock, ticks, JWT_EXPIRES_IN, NODE_ENV>>

----------------------------------------------------------------------------
(* POST /api/auth/signout: authenticate, signOut                           *)
(* authenticate reads the store once, signOut not at all: one step.        *)

\* signOut that answers 200 without clearing the cookie
signOutKeepingCookie(q) ==
    Respond(q, 200, Msg(TRUE, "Signed out successfully"), Null)

\* signOut(req, res): clear the cookie, 200
signOut(q) ==
    Respond(q, 200, Msg(TRUE, "Signed out successfully"), clearTokenCookie(NODE_ENV))

\* AuthFound whose 401 for a missing user lacks its return: it goes on to
\* req.user = user; next()
AuthFoundNoReturn(q) ==
    LET user == FindById(q.decoded.userId)
        r    == IF user = Null
                THEN Respond(q, 401, Msg(FALSE, "User not found. Please sign in again."), Null)
                ELSE q
    IN  signOut([r EXCEPT !.reqUser = user, !.nextCalled = TRUE])

\* AuthFound that calls next() without req.user = user
AuthFoundNoUser(q) ==
    LET user == FindById(q.decoded.userId)
    IN  IF user = Null
        THEN Respond(q, 401, Msg(FALSE, "User not found. Please sign in again."), Null)
        ELSE signOut([q EXCEPT !.nextCalled = TRUE])

\* AuthFound without the check that the user still exists
AuthFoundUnchecked(q) ==
    LET user == FindById(q.decoded.userId)
    IN  signOut([q EXCEPT !.reqUser = user, !.nextCalled = TRUE])

\* const user = await prisma.user.findUnique({ where: { id }, select }); then
\* req.user = user; next(), which runs signOut
AuthFound(q) ==
    LET user == FindById(q.decoded.userId)
    IN  IF user = Null
        THEN Respond(q, 401, Msg(FALSE, "User not found. Please sign in again."), Null)
        ELSE signOut([q EXCEPT !.reqUser = user, !.nextCalled = TRUE])

\* the sign-out route mounted without authenticate: signOut runs at once
authenticateSkipped(q, fail) == signOut(q)

\* authenticate over a server-side list of signed-out tokens: a token that
\* went through signOut is turned down from then on
authenticateRevoking(q, fail) ==
    LET token   == q.cookies
        decoded == IF FalsyCookie(token) THEN Null ELSE verifyToken(token, clock)
        revoked == \E k \in 1..Len(reqs) : /\ reqs[k].kind = "signout"
                                           /\ reqs[k].res.status = 200
                                           /\ reqs[k].cookies = token
    IN  IF FalsyCookie(token)
        THEN Respond(q, 401, Msg(FALSE, "Authentication required. Please sign in."), Null)
        ELSE IF decoded = Null \/ revoked
        THEN Respond(q, 401, Msg(FALSE, "Invalid or expired token. Please sign in again."), Null)
        ELSE IF fail THEN AuthInternalError([q EXCEPT !.decoded = decoded])
        ELSE AuthFound(Awaited([q EXCEPT !.decoded = decoded], "findUnique"))

\* authenticate(req, res, next)
authenticate(q, fail) ==
    LET token   == q.cookies
        decoded == IF FalsyCookie(token) THEN Null ELSE verifyToken(token, clock)
    IN  IF FalsyCookie(token)
        THEN Respond(q, 401, Msg(FALSE, "Authentication required. Please sign in."), Null)
        ELSE IF Thrown(decoded) THEN AuthInternalError(q)
        ELSE IF decoded = Null
        THEN Respond(q, 401, Msg(FALSE, "Invalid or expired token. Please sign in again."), Null)
        ELSE IF fail THEN AuthInternalError([q EXCEPT !.decoded = decoded])
        ELSE AuthFound(Awaited([q EXCEPT !.decoded = decoded], "findUnique"))

NoBody == [name |-> "", email |-> "", password |-> ""]

\* a request of the browser carries the jar's cookie
SignOutBrowser ==
    /\ Len(reqs) < MaxReqs
    /\ \E fail \in MayFail :
         LET q == authenticate(NewReq("signout", NoBody, jar.value, TRUE, jar.signedOut), fail)
         IN  /\ reqs' = Append(reqs, q)
             /\ faults' = IF q.faulted THEN faults + 1 ELSE faults
             /\ jar' \in BrowserAfter(jar, q)
    /\ UNCHANGED <<users, nextId, clock, ticks, JWT_EXPIRES_IN, NODE_ENV>>

\* a request of any other client carries what that client chooses
SignOutOther ==
    /\ Len(reqs) < MaxReqs
    /\ \E c \in CraftedCookies, fail \in MayFail :
         LET q == authenticate(NewReq("signout", NoBody, c, FALSE, FALSE), fail)
         IN  /\ reqs' = Append(reqs, q)
             /\ faults' = IF q.faulted THEN faults + 1 ELSE faults
    /\ UNCHANGED <<users, nextId, clock, ticks, JWT_EXPIRES_IN, NODE_ENV, jar>>

----------------------------------------------------------------------------
(* Environment                                                             *)

\* time passes: half a second, or one token lifetime
Tick ==
    /\ ticks < MaxTicks
    /\ ticks' = ticks + 1
    /\ \E d \in {TickMs, JWT_EXPIRES_IN * MsPerSecond} : clock' = clock + d
    /\ UNCHANGED <<users, nextId, JWT_EXPIRES_IN, NODE_ENV, reqs, jar, faults>>

----------------------------------------------------------------------------
(* Specifications                                                          *)

Next ==
    \/ StartSignUp
    \/ \E i \in 1..MaxReqs : SignUpCreate(i)
    \/ SignIn
    \/ SignOutBrowser
    \/ SignOutOther
    \/ Tick

\* the auth subsystem on its own
Spec == Init /\ [][Next]_vars

----------------------------------------------------------------------------
(* Vocabulary of the properties                                            *)

ReqIds == DOMAIN reqs
Done(i) == reqs[i].pc = "done"
IsTokenCookie(c) == c # Null /\ c.value.kind = "jwt"
\* the requests that arrive in this step
NewReqs == { reqs'[k] : k \in DOMAIN reqs' \ DOMAIN reqs }
\* the request passed the validators of its route
PassedValidation(q) == ValidationErrors(q.kind, q.body) = <<>>
\* prisma.user.create returned to this sign-up: its row is in the table
CreatedRow(q) ==
    /\ q.kind = "signup"
    /\ \E k \in DOMAIN q.work : q.work[k] = "create"
\* the row with this email was in the table before the first request seen here
InitiallyRegistered(email) ==
    \E u \in users :
        /\ u.email = email
        /\ ~\E i \in ReqIds : CreatedRow(reqs[i]) /\ reqs[i].body.email = email
Emails == { reqs[i].body.email : i \in ReqIds }
SignUpsFor(email) ==
    { i \in ReqIds : reqs[i].kind = "signup" /\ PassedValidation(reqs[i])
                      /\ reqs[i].body.email = email }
IsDuplicateEmail(res) == res.status = 400 /\ res.body.message = "Email already registered"
TokenReqs == { i \in ReqIds : IsTokenCookie(reqs[i].res.cookie) }
LifetimeMs == JWT_EXPIRES_IN * MsPerSecond

WrongPassword(i) ==
    /\ reqs[i].kind = "signin" /\ Done(i) /\ ~reqs[i].faulted
    /\ reqs[i].user # Null /\ ~Compare(reqs[i].body.password, reqs[i].user.password)

UnknownEmail(i) ==
    /\ reqs[i].kind = "signin" /\ Done(i) /\ ~reqs[i].faulted
    /\ PassedValidation(reqs[i])
    /\ reqs[i].user = Null

NoPasswordField(r) == "password" \notin DOMAIN r

GoodSignature(c) == c.sig = Signature(c.userId, c.iat, c.exp, JWT_SECRET)
MissingCookie(c) == c \in {NoCookie, EmptyCookie}
\* malformed, tampered or expired
InvalidCookie(c) ==
    \/ c = Garbage
    \/ c.kind = "jwt" /\ ~GoodSignature(c)
    \/ c.kind = "jwt" /\ clock >= c.exp * MsPerSecond
\* valid, for a user that has no row
OrphanCookie(c) ==
    /\ c.kind = "jwt" /\ ~InvalidCookie(c)
    /\ ~\E u \in users : u.id = c.userId
\* answered 401 by authenticate, signOut not run
Turned401(q) ==
    /\ q.pc = "done"
    /\ q.res.status = 401
    /\ ~q.nextCalled
    /\ q.res.cookie = Null
    /\ q.res.body.message # "Signed out successfully"

AfterSignOut(i) ==
    reqs[i].kind = "signout" /\ reqs[i].viaJar /\ reqs[i].afterSignOut

MissingOrShort(b) ==
    \/ b.name = "" \/ b.email = "" \/ b.password = ""
    \/ Len(b.password) < MinPasswordLen

AboutPassword(body) ==
    \/ body.message \in {"Password must be at least 6 characters long",
                          "Please provide name, email, and password"}
    \/ /\ "errors" \in DOMAIN body
       /\ \E k \in DOMAIN body.errors : body.errors[k].field = "password"

Succeeded(i) ==
    \/ reqs[i].kind = "signup" /\ reqs[i].res.status = 201
    \/ reqs[i].kind = "signin" /\ reqs[i].res.status = 200

----------------------------------------------------------------------------
(* C1: when all sign-ups for one email that was not registered before have  *)
(* been answered (none of them hit by a store outage), exactly one was      *)
(* answered 201 and every other one 400 'Email already registered'.         *)
(* Refuted: of two sign-ups that both looked the email up before either     *)
(* created its row, the second create violates users_email_key, and signUp  *)
(* answers that with 500.                                                   *)
C1_ExactlyOneSignUpSucceeds ==
    \A e \in Emails :
        LET S == SignUpsFor(e)
        IN  (/\ S # {}
             /\ ~InitiallyRegistered(e)
             /\ \A i \in S : Done(i) /\ ~reqs[i].faulted)
            => /\ Cardinality({ i \in S : reqs[i].res.status = 201 }) = 1
               /\ \A i \in S : reqs[i].res.status = 201 \/ IsDuplicateEmail(reqs[i].res)

----------------------------------------------------------------------------
(* C2: a sign-in with a registered email and a wrong password and a sign-in *)
(* with an unregistered email get the same response: status 401, the same   *)
(* body, the same (absent) cookie.                                          *)
C2_SignInIndistinguishable ==
    \A i, j \in ReqIds :
        (WrongPassword(i) /\ UnknownEmail(j))
        => /\ reqs[i].res.status = 401
           /\ reqs[j].res.status = 401
           /\ reqs[i].res.body = reqs[j].res.body
           /\ reqs[i].res.cookie = reqs[j].res.cookie

\* C2, witness: both sign-ins have been answered
C2_Witness == \E i, j \in ReqIds : WrongPassword(i) /\ UnknownEmail(j)

----------------------------------------------------------------------------
(* C3: no response body and no req.user carries a password field, whatever  *)
(* the outcome of the request.                                              *)
C3_NoPasswordLeaves ==
    \A i \in ReqIds :
        /\ NoPasswordField(reqs[i].res.body)
        /\ "user" \in DOMAIN reqs[i].res.body => NoPasswordField(reqs[i].res.body.user)
        /\ NoPasswordField(reqs[i].reqUser)

\* C3, witness: a sign-in that read a row with its password answered 200, and
\* authenticate attached a user to a request
C3_Witness ==
    /\ \E i \in ReqIds : reqs[i].kind = "signin" /\ reqs[i].res.status = 200
                           /\ "password" \in DOMAIN reqs[i].user
    /\ \E i \in ReqIds : reqs[i].kind = "signout" /\ reqs[i].reqUser # Null

----------------------------------------------------------------------------
(* C4 as stated: a token issued at clock time T with lifetime L verifies at *)
(* every time before T+L and is rejected at every time after T+L.           *)
(* Refuted: the token carries whole seconds, so a token issued at 0.5s with *)
(* a lifetime of 1s is rejected at 1.0s already.                            *)
C4_ValidUntilIssuePlusLifetime ==
    \A i \in TokenReqs :
        LET token == reqs[i].res.cookie.value
            T     == reqs[i].res.issuedAt
        IN  /\ clock < T + LifetimeMs => verifyToken(token, clock) # Null
            /\ clock > T + LifetimeMs => verifyToken(token, clock) = Null

(* C4 as amended: issued at T, the token verifies (as its user's id) while  *)
(* the clock's whole second is before floor(T) + L and is rejected from     *)
(* then on; so it verifies at every time up to T+L-1s and is rejected at    *)
(* every time from T+L on, for every user id and lifetime.                  *)
C4_ValidUntilWholeSecondExpiry ==
    \A i \in TokenReqs :
        LET token   == reqs[i].res.cookie.value
            T       == reqs[i].res.issuedAt
            expiry  == (T \div MsPerSecond) + JWT_EXPIRES_IN
            decoded == verifyToken(token, clock)
        IN  /\ clock \div MsPerSecond < expiry
                => decoded # Null /\ decoded.userId = reqs[i].res.body.user.id
            /\ clock \div MsPerSecond >= expiry => decoded = Null
            /\ clock <= T + LifetimeMs - MsPerSecond => decoded # Null
            /\ clock >= T + LifetimeMs => decoded = Null

\* C4, witness: authenticate has turned down, as expired, a token it was handed
\* unchanged, at a time before T+L
C4_Witness ==
    \E i \in TokenReqs : \E j \in ReqIds :
        /\ reqs[j].kind = "signout"
        /\ reqs[j].cookies = reqs[i].res.cookie.value
        /\ reqs[j].res.status = 401
        /\ reqs[j].res.body.message = "Invalid or expired token. Please sign in again."
        /\ clock < reqs[i].res.issuedAt + LifetimeMs

----------------------------------------------------------------------------
(* C5: a sign-out request (the route behind authenticate) is answered 401,  *)
(* and signOut does not run, when it carries no token cookie, or a          *)
(* malformed, tampered or expired one, or a valid one whose userId has no   *)
(* row in the table (the lookup itself not failing).                        *)
C5_Rejects ==
    [][ \A q \in NewReqs :
            (/\ q.kind = "signout"
             /\ \/ MissingCookie(q.cookies)
                \/ InvalidCookie(q.cookies)
                \/ OrphanCookie(q.cookies) /\ ~q.faulted)
            => Turned401(q) ]_vars

\* C5, witness: a correctly signed token of a user without a row was answered
\* 'User not found', and a tampered token was answered 401
C5_Witness ==
    /\ \E i \in ReqIds : /\ reqs[i].kind = "signout"
                           /\ reqs[i].cookies.kind = "jwt"
                           /\ GoodSignature(reqs[i].cookies)
                           /\ reqs[i].res.body.message = "User not found. Please sign in again."
    /\ \E i \in ReqIds : /\ reqs[i].kind = "signout"
                           /\ reqs[i].cookies.kind = "jwt"
                           /\ ~GoodSignature(reqs[i].cookies)
                           /\ reqs[i].res.status = 401

----------------------------------------------------------------------------
(* C6: the browser's protected request after a sign-out that succeeded,     *)
(* sent with what the Set-Cookie of that sign-out left in the jar (the      *)
(* emptied cookie, or no cookie), is answered 401.                          *)
C6_ClearedCookieRejected ==
    \A i \in ReqIds :
        AfterSignOut(i)
        => /\ MissingCookie(reqs[i].cookies)
           /\ Done(i)
           /\ reqs[i].res.status = 401
           /\ ~reqs[i].nextCalled

\* C6, witness: a sign-out answered 200 with the clearing cookie, and the
\* browser's next request, carrying the emptied cookie, got 401
C6_Witness ==
    \E i, j \in ReqIds :
        /\ i < j
        /\ reqs[i].kind = "signout" /\ reqs[i].res.status = 200
        /\ reqs[i].res.cookie.value = EmptyCookie /\ reqs[i].res.cookie.expires = 0
        /\ AfterSignOut(j) /\ reqs[j].cookies = EmptyCookie /\ reqs[j].res.status = 401

----------------------------------------------------------------------------
(* C7: the maxAge of every token cookie equals the lifetime of the token in *)
(* it, whatever lifetime is configured.                                     *)
(* Refuted: setTokenCookie writes 7 days whatever JWT_EXPIRES_IN is.        *)
C7_MaxAgeIsTokenLifetime ==
    \A i \in TokenReqs :
        LET c == reqs[i].res.cookie
        IN  c.maxAge = (c.value.exp - c.value.iat) * MsPerSecond

----------------------------------------------------------------------------
(* C8: a sign-up whose email has a row in the table is answered 400         *)
(* 'Email already registered'; the table and the browser's cookie stay as   *)
(* they are and the response sets no cookie.                                *)
C8_DuplicateRejected ==
    [][ \A q \in NewReqs :
            (/\ q.kind = "signup"
             /\ PassedValidation(q)
             /\ ~q.faulted
             /\ \E u \in users : u.email = q.body.email)
            => /\ q.pc = "done"
               /\ IsDuplicateEmail(q.res)
               /\ q.res.cookie = Null
               /\ users' = users
               /\ nextId' = nextId
               /\ jar' = jar ]_vars

\* C8, witness: a sign-up for an email with a row has been answered so
C8_Witness ==
    \E i \in ReqIds : /\ reqs[i].kind = "signup" /\ IsDuplicateEmail(reqs[i].res)
                       /\ reqs[i].user \in users
                       /\ reqs[i].user.email = reqs[i].body.email

----------------------------------------------------------------------------
(* C9: a sign-up with name, email or password missing, or with a password   *)
(* of fewer than 6 characters, is answered 400 before the store is touched  *)
(* (no lookup, no failure of one, no row, no cookie); a password of exactly *)
(* 6 characters is not turned down for its length.                          *)
C9_InvalidSignUpRejected ==
    [][ \A q \in NewReqs :
            q.kind = "signup"
            => /\ MissingOrShort(q.body)
                  => /\ q.pc = "done"
                     /\ q.res.status = 400
                     /\ q.res.cookie = Null
                     /\ q.user = Null
                     /\ ~q.faulted
                     /\ users' = users
                     /\ jar' = jar
               /\ Len(q.body.password) = MinPasswordLen
                  => ~(q.res.status = 400 /\ AboutPassword(q.res.body)) ]_vars

\* C9, witness: a sign-up with a 6-character password was answered 201 and one
\* with a 5-character password 400
C9_Witness ==
    /\ \E i \in ReqIds : /\ reqs[i].kind = "signup"
                           /\ Len(reqs[i].body.password) = MinPasswordLen
                           /\ reqs[i].res.status = 201
    /\ \E i \in ReqIds : /\ reqs[i].kind = "signup"
                           /\ Len(reqs[i].body.password) = MinPasswordLen - 1
                           /\ reqs[i].res.status = 400

----------------------------------------------------------------------------
(* C10: a 201 of sign-up and a 200 of sign-in carry a token cookie whose    *)
(* token, verified before its expiry, names the user of the response body:  *)
(* the row the sign-up created, the row stored under the sign-in's email.   *)
C10_TokenNamesUser ==
    \A i \in ReqIds :
        Succeeded(i)
        => /\ IsTokenCookie(reqs[i].res.cookie)
           /\ LET q     == reqs[i]
                  token == q.res.cookie.value
                  id    == q.res.body.user.id
                  atIssue == verifyToken(token, q.res.issuedAt)
                  now     == verifyToken(token, clock)
              IN  /\ atIssue # Null /\ atIssue.userId = id
                  /\ now # Null => now.userId = id
                  /\ \E u \in users :
                        /\ u.id = id
                        /\ u.email = q.body.email
                        /\ q.kind = "signup" => /\ u.name = q.body.name
                                                /\ u.password = Hash(q.body.password)
                                                /\ u.password = q.hashedPassword
                        /\ q.kind = "signin" => /\ q.user = u
                                                /\ Compare(q.body.password, u.password)

\* C10, witness: a sign-up was answered 201 and a sign-in 200
C10_Witness ==
    /\ \E i \in ReqIds : reqs[i].kind = "signup" /\ reqs[i].res.status = 201
    /\ \E i \in ReqIds : reqs[i].kind = "signin" /\ reqs[i].res.status = 200

----------------------------------------------------------------------------
(* C11: verifyToken ends in a value for every cookie a client can present,  *)
(* never in an exception: null for a missing, malformed, tampered or        *)
(* expired token, and the decoded claim, with the token's userId, only for  *)
(* a correctly signed token that has not expired. A sign-out request whose  *)
(* token did not verify was answered 401 'Invalid or expired token', and    *)
(* was not answered 500.                                                    *)
C11_VerifyNeverThrows ==
    /\ \A c \in CraftedCookies \cup {jar.value} :
          LET decoded == verifyToken(c, clock)
          IN  /\ ~Thrown(decoded)
              /\ (MissingCookie(c) \/ InvalidCookie(c)) => decoded = Null
              /\ decoded # Null => /\ c.kind = "jwt"
                                   /\ GoodSignature(c)
                                   /\ clock < c.exp * MsPerSecond
                                   /\ decoded.userId = c.userId
    /\ \A i \in ReqIds :
          (/\ reqs[i].kind = "signout"
           /\ ~FalsyCookie(reqs[i].cookies)
           /\ reqs[i].decoded = Null)
          => /\ reqs[i].res.status = 401
             /\ reqs[i].res.body.message = "Invalid or expired token. Please sign in again."
             /\ ~reqs[i].faulted

\* C11, witness: a malformed token and a correctly signed, expired token were
\* both answered 401
C11_Witness ==
    /\ \E i \in ReqIds : /\ reqs[i].kind = "signout"
                           /\ reqs[i].cookies = Garbage
                           /\ reqs[i].res.status = 401
    /\ \E i \in ReqIds : /\ reqs[i].kind = "signout"
                           /\ reqs[i].cookies.kind = "jwt"
                           /\ GoodSignature(reqs[i].cookies)
                           /\ reqs[i].decoded = Null
                           /\ reqs[i].res.status = 401

----------------------------------------------------------------------------
(* C12: every request to sign-up, sign-in and sign-out has been answered    *)
(* at most once; a request whose handler chain has ended, on whatever path, *)
(* an internal failure included, has been answered exactly once; and a      *)
(* request not yet answered is a sign-up waiting for its create, whose      *)
(* next step can be taken and always ends in the one answer.                *)
C12_ExactlyOneResponse ==
    \A i \in ReqIds :
        /\ reqs[i].res.sent <= 1
        /\ Done(i) <=> (reqs[i].res.sent = 1 /\ reqs[i].res.status # 0)
        /\ ~Done(i) =>
              /\ reqs[i].kind = "signup" /\ reqs[i].pc = "su_create"
              /\ ENABLED SignUpCreate(i)
              /\ ~ENABLED (SignUpCreate(i) /\ reqs'[i].res.sent # 1)

\* C12, witness: a request that ended in the catch of its handler and a
\* request turned down by authenticate have each one answer
C12_Witness ==
    /\ \E i \in ReqIds : reqs[i].faulted /\ reqs[i].res.status = 500 /\ reqs[i].res.sent = 1
    /\ \E i \in ReqIds : /\ reqs[i].kind = "signout"
                           /\ reqs[i].res.status = 401
                           /\ reqs[i].res.sent = 1

----------------------------------------------------------------------------
(* C13: a request in which a store or hashing call failed unexpectedly      *)
(* (sign-up, sign-in, or sign-out through authenticate) was answered 500    *)
(* with the body {success: false, message} whose message is one of the two  *)
(* fixed texts, and with no cookie; it was never answered 2xx or 4xx.       *)
C13_FailureIsGeneric500 ==
    \A i \in ReqIds :
        reqs[i].faulted
        => /\ Done(i)
           /\ reqs[i].res.status = 500
           /\ DOMAIN reqs[i].res.body = {"success", "message"}
           /\ reqs[i].res.body.success = FALSE
           /\ reqs[i].res.body.message \in
                  {"Internal server error", "Internal server error during authentication"}
           /\ reqs[i].res.cookie = Null

\* C13, witness: the hash or the create of a sign-up failed after its lookup
\* had succeeded, and the sign-up was answered 500
C13_Witness ==
    \E i \in ReqIds :
        /\ reqs[i].kind = "signup" /\ reqs[i].faulted
        /\ reqs[i].hashedPassword # Null
        /\ reqs[i].res.status = 500

----------------------------------------------------------------------------
(* C14: a sign-out request is answered by signOut (200, or any Set-Cookie   *)
(* that clears the token) only when authenticate verified its token, found  *)
(* the row of the token's userId and called next; a sign-out request whose  *)
(* token is missing, malformed, tampered or expired is answered 401 with no *)
(* Set-Cookie, so the cookie is not cleared.                                *)
C14_SignOutBehindAuthenticate ==
    [][ \A q \in NewReqs :
            q.kind = "signout"
            => /\ (q.res.status = 200 \/ q.res.cookie # Null)
                  => /\ q.cookies.kind = "jwt"
                     /\ verifyToken(q.cookies, clock) # Null
                     /\ q.decoded = verifyToken(q.cookies, clock)
                     /\ \E u \in users : /\ u.id = q.decoded.userId
                                         /\ q.reqUser = Projection(u)
                     /\ q.nextCalled
               /\ (MissingCookie(q.cookies) \/ InvalidCookie(q.cookies))
                  => /\ q.res.status = 401
                     /\ q.res.cookie = Null ]_vars

\* C14, witness: one sign-out went through authenticate to signOut and had
\* its cookie cleared, another one carried no valid token and got 401 with no
\* Set-Cookie
C14_Witness ==
    /\ \E i \in ReqIds : /\ reqs[i].kind = "signout"
                           /\ reqs[i].res.status = 200
                           /\ reqs[i].res.cookie = clearTokenCookie(NODE_ENV)
                           /\ reqs[i].nextCalled
    /\ \E i \in ReqIds : /\ reqs[i].kind = "signout"
                           /\ reqs[i].decoded = Null
                           /\ reqs[i].res.status = 401
                           /\ reqs[i].res.cookie = Null

----------------------------------------------------------------------------
(* C15: a sign-in for an email that is not registered and a sign-in with a  *)
(* wrong password for a registered email have awaited the same sequence of  *)
(* calls, a password-hash comparison among them, before their 401.          *)
(* Refuted: signIn returns its 401 for an unknown email right after         *)
(* findUnique and runs bcrypt.compare only when it found a row.             *)
C15_SameWorkBefore401 ==
    \A i, j \in ReqIds :
        (WrongPassword(i) /\ UnknownEmail(j))
        => /\ reqs[i].work = reqs[j].work
           /\ \E k \in DOMAIN reqs[j].work : reqs[j].work[k] = "bcrypt.compare"

----------------------------------------------------------------------------
(* C16: the answer of authenticate is a function of the token, of what the  *)
(* clock makes of it, and of the row of its user (rows are never removed    *)
(* and ids never reused): two sign-out requests that carried the same       *)
(* cookie and got the same verification result, no store failure striking   *)
(* either, got the same answer, whoever sent them and whatever requests     *)
(* came between. In particular there is no revocation: a token with which   *)
(* a sign-out already succeeded, presented again while it still verifies,   *)
(* is accepted again.                                                       *)
C16_NoRevocation ==
    [][ \A q \in NewReqs : \A i \in ReqIds :
            (/\ reqs[i].kind = "signout" /\ q.kind = "signout"
             /\ ~reqs[i].faulted /\ ~q.faulted
             /\ reqs[i].cookies = q.cookies
             /\ ~FalsyCookie(q.cookies))
            => /\ reqs[i].decoded = verifyToken(q.cookies, clock)
                  => /\ q.res = reqs[i].res
                     /\ q.reqUser = reqs[i].reqUser
                     /\ q.nextCalled = reqs[i].nextCalled
               /\ (reqs[i].res.status = 200 /\ verifyToken(q.cookies, clock) # Null)
                  => /\ q.nextCalled
                     /\ q.res.status = 200 ]_vars

\* C16, witness: the browser signed out with its token, and the same token,
\* sent again by another client before its expiry, was accepted
C16_Witness ==
    \E i, j \in ReqIds :
        /\ i < j
        /\ reqs[i].kind = "signout" /\ reqs[i].viaJar /\ reqs[i].res.status = 200
        /\ reqs[j].kind = "signout" /\ ~reqs[j].viaJar
        /\ reqs[j].cookies = reqs[i].cookies
        /\ reqs[j].res.status = 200

----------------------------------------------------------------------------
(* C17: authenticate called next() for a request exactly when the request   *)
(* carried a token that verified and the table held a row with the token's  *)
(* userId at the lookup (the lookup not failing); next() then ran with      *)
(* req.user set to the projection of that row, whose id is the token's      *)
(* userId, and ran once: the downstream handler answered the request one    *)
(* time. Without such a token or row next() was not called.                 *)
C17_NextIffAuthenticated ==
    [][ \A q \in NewReqs :
            q.kind = "signout"
            => LET decoded  == IF FalsyCookie(q.cookies) THEN Null
                               ELSE verifyToken(q.cookies, clock)
                   resolves == /\ decoded # Null
                               /\ \E u \in users : u.id = decoded.userId
               IN  /\ q.nextCalled => resolves
                   /\ (resolves /\ ~q.faulted) => q.nextCalled
                   /\ q.nextCalled
                      => /\ \E u \in users : /\ u.id = decoded.userId
                                             /\ q.reqUser = Projection(u)
                         /\ q.reqUser.id = q.cookies.userId
                         /\ q.res.sent = 1
                         /\ q.res.body.message = "Signed out successfully"
                   /\ ~q.nextCalled => /\ q.reqUser = Null
                                       /\ q.res.status \in {401, 500} ]_vars

\* C17, witness: authenticate let one request through with req.user set to
\* the row of the token's user, and stopped another one that carried that
\* user's token with its userId changed
C17_Witness ==
    \E i, j \in ReqIds :
        /\ reqs[i].kind = "signout"
        /\ reqs[i].nextCalled
        /\ reqs[i].reqUser # Null
        /\ reqs[i].reqUser.id = reqs[i].decoded.userId
        /\ reqs[j].kind = "signout"
        /\ reqs[j].cookies.kind = "jwt"
        /\ reqs[j].cookies.sig = reqs[i].cookies.sig
        /\ reqs[j].cookies.userId # reqs[i].cookies.userId
        /\ ~reqs[j].nextCalled

----------------------------------------------------------------------------
(* C18: in every reachable state of the table, whatever sign-ups, sign-ins  *)
(* and sign-outs ran and however their steps interleaved, no two rows have  *)
(* the same email and no two rows have the same id.                         *)
C18_UniqueEmailAndId ==
    \A u, v \in users :
        (u.email = v.email \/ u.id = v.id) => u = v

\* C18, witness: two sign-ups for one email had both passed their lookup
\* before either created its row, and the table holds one row with that email
C18_Witness ==
    \E i, j \in ReqIds :
        /\ i # j
        /\ reqs[i].kind = "signup" /\ reqs[j].kind = "signup"
        /\ reqs[i].body.email = reqs[j].body.email
        /\ reqs[i].hashedPassword # Null /\ reqs[j].hashedPassword # Null
        /\ Done(i) /\ Done(j)
        /\ ~reqs[i].faulted /\ ~reqs[j].faulted
        /\ Cardinality({ u \in users : u.email = reqs[i].body.email }) = 1

----------------------------------------------------------------------------
(* C19: no step removes or changes a row of the table; a step in which a    *)
(* sign-in or a sign-out request (authenticate included) is handled, on     *)
(* whatever path, leaves the table as it was; and the table changes only in *)
(* the create step of a sign-up whose prisma.user.create returned, by       *)
(* exactly the one row of that sign-up.                                     *)
C19_StoreOnlyGrowsBySignUp ==
    [][ /\ users \subseteq users'
        /\ \A q \in NewReqs : users' = users
        /\ users' # users
           => \E i \in ReqIds :
                 /\ reqs[i].kind = "signup" /\ reqs[i].pc = "su_create"
                 /\ CreatedRow(reqs'[i])
                 /\ Cardinality(users' \ users) = 1
                 /\ \A u \in users' \ users :
                       /\ u.email = reqs[i].body.email
                       /\ u.name = reqs[i].body.name
                       /\ u.password = reqs'[i].hashedPassword ]_vars

\* C19, witness: a sign-up created a row, a sign-out with that sign-up's token
\* was then let through, and the row is in the table as it was created
C19_Witness ==
    \E i, j \in ReqIds :
        /\ i < j
        /\ reqs[i].kind = "signup" /\ reqs[i].res.status = 201
        /\ reqs[j].kind = "signout" /\ reqs[j].res.status = 200
        /\ reqs[j].cookies = reqs[i].res.cookie.value
        /\ \E u \in users : Projection(u) = reqs[i].res.body.user

----------------------------------------------------------------------------
(* C20: in the step in which a response gets a token cookie, the token      *)
(* names a user u such that either the request is a sign-up whose create,   *)
(* in this very step, inserted u with the request's email and the hash of   *)
(* its password (201), or the request is a sign-in that submitted u's email *)
(* and a password matching u's stored hash (200). A response of sign-up or  *)
(* sign-in with status 400 or 401 carries no token cookie.                  *)
C20_TokenOnlyForProvenIdentity ==
    [][ \A k \in DOMAIN reqs' :
            LET q == reqs'[k]
                answeredNow == k \notin DOMAIN reqs \/ reqs[k].pc # "done"
            IN  /\ (answeredNow /\ IsTokenCookie(q.res.cookie))
                   => LET uid == q.res.cookie.value.userId
                      IN  \/ /\ q.kind = "signup" /\ q.res.status = 201
                             /\ ~\E u \in users : u.id = uid
                             /\ \E u \in users' \ users :
                                   /\ u.id = uid
                                   /\ u.email = q.body.email
                                   /\ u.password = Hash(q.body.password)
                          \/ /\ q.kind = "signin" /\ q.res.status = 200
                             /\ \E u \in users :
                                   /\ u.id = uid
                                   /\ u.email = q.body.email
                                   /\ Compare(q.body.password, u.password)
                /\ (q.kind \in {"signup", "signin"} /\ q.res.status \in {400, 401})
                   => q.res.cookie = Null ]_vars

\* C20, witness: a sign-in with a wrong password for a registered email got
\* 401 and no cookie, and a sign-in with the right one got the token cookie
C20_Witness ==
    /\ \E i \in ReqIds : WrongPassword(i) /\ reqs[i].res.cookie = Null
    /\ \E i \in ReqIds : /\ reqs[i].kind = "signin"
                           /\ IsTokenCookie(reqs[i].res.cookie)
                           /\ reqs[i].res.cookie.value.userId = reqs[i].user.id

----------------------------------------------------------------------------
(* C21: a sign-up request has put a row into the table if and only if it    *)
(* was answered 201; a sign-up answered 400 or 500, a failure while issuing *)
(* the token or attaching the cookie included, has left no row of its own.  *)
(* Refuted: prisma.user.create commits the row before generateToken and     *)
(* setTokenCookie run; when one of them throws, the catch of signUp answers *)
(* 500 and the row stays.                                                   *)
C21_SignUpAllOrNothing ==
    \A i \in ReqIds :
        (reqs[i].kind = "signup" /\ Done(i))
        => /\ CreatedRow(reqs[i]) <=> reqs[i].res.status = 201
           /\ reqs[i].res.status \in {400, 500}
              => ~\E u \in users : /\ u.email = reqs[i].body.email
                                   /\ u.password = reqs[i].hashedPassword
                                   /\ ~InitiallyRegistered(u.email)

====
